---- MODULE Spec2Model ----
(***************************************************************************)
(* Model of agent/essay_tutor.py: the EssayTutor session store and the     *)
(* get_response turn (append user message, build the bounded request,      *)
(* dispatch, append the reply or the synthesized error).                   *)
(*                                                                         *)
(* Python objects live on a heap: self.sessions maps a session id to a     *)
(* reference, and a suspended get_response keeps the reference it read at  *)
(* line 74.  The only suspension point of get_response is the await of     *)
(* the completion call (line 94); create_session and reset_session         *)
(* contain no suspension point, so each is one step.                       *)
(*                                                                         *)
(* Message.timestamp is written from datetime.now() and read by no         *)
(* operation of the module; it is left out of the Message record.          *)
(***************************************************************************)
EXTENDS Integers, Sequences, FiniteSets, TLC

(* ----------------------------- bounds ---------------------------------- *)
\* a concurrent run starts a turn only on a stored log shorter than this
MaxMsgs == 2
\* a run over several session ids starts a turn only on a shorter stored log
MaxStoreMsgs == 1
\* a sequential run starts a turn only on a stored log shorter than this
MaxSeqMsgs == 11
MaxReadMsgs == 1    \* SpecRead, SpecInfo, SpecCtor: a call may start while
                    \* the log is shorter
MaxParMsgs == 1     \* SpecPar: a call may start while the log is shorter
MaxRaceMsgs == 4    \* SpecRace: a call may start while the log is shorter
MaxLiveMsgs == 2    \* SpecLive: a call may start while the log is shorter
MaxEdits == 1       \* SpecRead: changes a caller makes to one returned list

\* coroutines that may run get_response at the same time
Procs == {1, 2}
\* the one caller of the sequential runs
SeqProcs == {1}
\* session ids the callers use, in a fixed order
IdSeq == <<"s1", "s2">>
IDs == {IdSeq[k] : k \in 1..Len(IdSeq)}
\* the session id the concurrent and the sequential runs work on
OneID == {"s1"}
\* user texts
Texts == {"hi", "yo"}
SeqTexts == {"hi"}
\* topics a collaborator assigns
Topics == {"Climate Change"}

(* ------------------------ Python values -------------------------------- *)
\* Optional[str]: None is the empty tuple, a str s is the one-element tuple
None == <<>>
Str(s) == <<s>>
IsStr(v) == Len(v) = 1
\* null reference (a local that holds no object, the None of dict.get)
NoRef == 0

(* ------------------------- program constants --------------------------- *)
\* messages[-10:]
WindowSize == 10
\* first sentence of the instruction text; the rest is static text as well
system_prompt == "You are an expert essay writing tutor."
ErrorPrefix == "Sorry, I encountered an error: "
InitialStage == "topic_selection"
\* str(IndexError) of response.choices[0] on an empty list
IndexErrorText == "list index out of range"

(* --------------------------- data model -------------------------------- *)
Message(role, content) == [role |-> role, content |-> content]

EssaySession(session_id) ==
  [session_id |-> session_id, topic |-> None, messages |-> <<>>,
   current_stage |-> InitialStage]

VARIABLES
  sessions,   \* self.sessions: session id -> reference
  heap,       \* reference -> EssaySession object (live objects only)
  pc,         \* per coroutine: "idle" or "awaiting" (suspended at line 94)
  local,      \* per coroutine: the locals of a suspended get_response
  call,       \* observation: how the call in flight started, what met it
  turns,      \* observation: sequential get_response calls made on each id
  lastOp,     \* observation: the operation of the last step and its result
  held,       \* what a caller keeps: the results of the read operations
  tutor       \* the EssayTutor object: its construction and api_key

vars == <<sessions, heap, pc, local, call, turns, lastOp, held, tutor>>

NoLocal == [session_id |-> "", user_message |-> "", session |-> NoRef,
            messages |-> <<>>]
NoCall == [existed |-> FALSE, solo |-> TRUE, kept |-> TRUE, before |-> <<>>,
           topic0 |-> None, sent |-> 0]

\* a list a caller holds: its own items, or (alias) the messages list of a
\* session object
NoList == [some |-> FALSE, alias |-> NoRef, items |-> <<>>, edits |-> 0]
\* the caller holds no result
NoHeld == [info |-> NoRef, hist |-> NoList]

(* ------------------------------ heap ----------------------------------- *)
\* a reference no live object uses (the allocator)
NewRef == Len(heap) + 1

\* the heap h with a new object o at reference Len(h) + 1
Alloc(h, o) == Append(h, o)

\* the references held by self.sessions, by the suspended coroutines and
\* by the caller
Roots(sess, loc, hd) ==
  [k \in 1..Len(IdSeq) |->
     IF IdSeq[k] \in DOMAIN sess THEN sess[IdSeq[k]] ELSE NoRef] \o
  [p \in 1..Cardinality(Procs) |-> loc[p].session] \o
  <<hd.info, hd.hist.alias>>

\* unreachable objects are reclaimed and the live ones renumbered in the
\* order of Roots (a reference number carries no meaning but identity)
Collect(h, sess, loc, hd) ==
  LET roots == Roots(sess, loc, hd)
      First(r) == CHOOSE k \in 1..Len(roots) :
                    roots[k] = r /\ \A j \in 1..(k - 1) : roots[j] # r
      live == {roots[k] : k \in 1..Len(roots)} \ {NoRef}
      Rank(r) == IF r = NoRef THEN NoRef
                 ELSE Cardinality({x \in live : First(x) <= First(r)})
      Old(n) == CHOOSE r \in live : Rank(r) = n
  IN  [heap |-> [n \in 1..Cardinality(live) |-> h[Old(n)]],
       sessions |-> [i \in DOMAIN sess |-> Rank(sess[i])],
       local |-> [p \in Procs |-> [loc[p] EXCEPT !.session = Rank(@)]],
       held |-> [hd EXCEPT !.info = Rank(@), !.hist.alias = Rank(@)]]

\* variant: the message is inserted at the front of the list
Append_messages_front(h, r, m) ==
  [h EXCEPT ![r].messages = <<m>> \o @]

\* variant: the list is cut to its last WindowSize entries after the append
Append_messages_trim(h, r, m) ==
  LET s == Append(h[r].messages, m)
  IN  [h EXCEPT ![r].messages =
         SubSeq(s, IF Len(s) > WindowSize THEN Len(s) - WindowSize + 1 ELSE 1,
                Len(s))]

\* variant: every session object shares one messages list (a mutable
\* default of the dataclass field)
Append_messages_shared(h, r, m) ==
  [x \in DOMAIN h |-> [h[x] EXCEPT !.messages = Append(@, m)]]

\* list.append on the messages of object r
Append_messages(h, r, m) ==
  [h EXCEPT ![r].messages = Append(@, m)]

(* --------------------------- read operations --------------------------- *)
\* messages.copy() of the stored session, [] for an unknown id
get_session_history(session_id) ==
  IF session_id \notin DOMAIN sessions THEN <<>>
  ELSE heap[sessions[session_id]].messages

\* self.sessions.get(session_id): the stored reference or NoRef (None)
get_session_info(session_id) ==
  IF session_id \in DOMAIN sessions THEN sessions[session_id] ELSE NoRef

(* ------------------------ request assembly ----------------------------- *)
\* variant: the slice s[:k], the first k entries
LastSlice_first(s, k) ==
  SubSeq(s, 1, IF Len(s) < k THEN Len(s) ELSE k)

\* Python slice s[-k:]
LastSlice(s, k) ==
  SubSeq(s, (IF Len(s) - k > 0 THEN Len(s) - k ELSE 0) + 1, Len(s))

\* variant: the window is taken from the log as it was before the last
\* append, session.messages[-11:-1]
BuildRequest_stale(msgs) ==
  LET old == SubSeq(msgs, 1, Len(msgs) - 1)
      w == LastSlice(old, WindowSize)
  IN  <<[role |-> "system", content |-> Str(system_prompt)]>> \o
      [i \in 1..Len(w) |-> [role |-> w[i].role, content |-> w[i].content]]

\* variant: the window is cut after the system instruction was put in front
BuildRequest_sliced(msgs) ==
  LastSlice(<<[role |-> "system", content |-> Str(system_prompt)]>> \o
            [i \in 1..Len(msgs) |->
               [role |-> msgs[i].role, content |-> msgs[i].content]],
            WindowSize)

\* lines 84-91: system instruction, then role and content of the window
BuildRequest(msgs) ==
  LET w == LastSlice(msgs, WindowSize)
  IN  <<[role |-> "system", content |-> Str(system_prompt)]>> \o
      [i \in 1..Len(w) |-> [role |-> w[i].role, content |-> w[i].content]]

(* ------------------------ completion service --------------------------- *)
\* what the remote service may answer to a request: generated text (here
\* the echo "OK:" + content of the last user entry), a choice without
\* content, no choice at all, or an error
Completions(req) ==
  LET us == {i \in 1..Len(req) : req[i].role = "user"}
      k  == CHOOSE i \in us : \A j \in us : j <= i
  IN  { [kind |-> "response",
         choices |-> <<Str("OK:" \o req[k].content[1])>>],
        [kind |-> "response", choices |-> <<None>>],
        [kind |-> "response", choices |-> <<>>],
        [kind |-> "raise", error |-> "API Error"] }

(* --------------------------- construction ------------------------------ *)
\* no EssayTutor object exists (before __init__, or after it raised)
NoTutor == [state |-> "none", api_key |-> None, has_sessions |-> FALSE]

\* the object after lines 36-41: api_key, client and the sessions map are set
Constructed(key) == [state |-> "ready", api_key |-> key, has_sessions |-> TRUE]

\* the object __init__ left at the raise of line 38: api_key is assigned,
\* client and sessions are not, and no caller gets the object
Abandoned(key) == [state |-> "failed", api_key |-> key, has_sessions |-> FALSE]

\* the values of the api_key argument and of os.getenv("OPENAI_API_KEY")
Keys == {None, Str(""), Str("sk-test")}

\* Python truth of an Optional[str]: None and "" are false
Truthy(v) == v # None /\ v # Str("")

\* variant: the environment is not consulted
ApiKey_argOnly(api_key, env) == api_key

\* line 36: api_key or os.getenv("OPENAI_API_KEY")
ApiKey(api_key, env) == IF Truthy(api_key) THEN api_key ELSE env

(* ------------------------------ Init ----------------------------------- *)
\* the state right after a successful construction
Init ==
  /\ sessions = [i \in {} |-> NoRef]
  /\ heap = <<>>
  /\ pc = [p \in Procs |-> "idle"]
  /\ local = [p \in Procs |-> NoLocal]
  /\ call = [p \in Procs |-> NoCall]
  /\ turns = [i \in IDs |-> [n |-> 0, seq |-> TRUE]]
  /\ lastOp = [op |-> "init"]
  /\ held = NoHeld
  /\ tutor = Constructed(Str("test_key"))

\* the state before any EssayTutor is constructed
InitCtor ==
  /\ sessions = [i \in {} |-> NoRef]
  /\ heap = <<>>
  /\ pc = [p \in Procs |-> "idle"]
  /\ local = [p \in Procs |-> NoLocal]
  /\ call = [p \in Procs |-> NoCall]
  /\ turns = [i \in IDs |-> [n |-> 0, seq |-> TRUE]]
  /\ lastOp = [op |-> "init"]
  /\ held = NoHeld
  /\ tutor = NoTutor

\* EssayTutor.__init__, lines 34-41, called while no tutor is in use
EssayTutor_init(api_key, env) ==
  /\ tutor.state # "ready"
  /\ LET key == ApiKey(api_key, env)
     IN  /\ tutor' = IF Truthy(key) THEN Constructed(key) ELSE Abandoned(key)
         /\ lastOp' = [op |-> "__init__", api_key |-> api_key, env |-> env,
                       raised |-> IF Truthy(key) THEN "" ELSE "ValueError",
                       retry |-> tutor.state = "failed"]
  /\ sessions' = [i \in {} |-> NoRef]
  /\ UNCHANGED <<heap, pc, local, call, turns, held>>

\* a tutor was constructed: its methods can be called
Ready == tutor.state = "ready"

(* --------------------------- helpers ----------------------------------- *)
\* coroutines suspended in a get_response on session_id
InFlight(session_id) ==
  {p \in Procs : pc[p] = "awaiting" /\ local[p].session_id = session_id}

\* sessions with session_id bound to reference r
Bind(session_id, r) ==
  [i \in DOMAIN sessions \cup {session_id} |->
     IF i = session_id THEN r ELSE sessions[i]]

\* a create or reset of session_id replaces the object of the calls in
\* flight on it
Disturb(session_id) ==
  [p \in Procs |-> IF p \in InFlight(session_id)
                   THEN [call[p] EXCEPT !.kept = FALSE] ELSE call[p]]

\* the count of turns of session_id after a create or reset: the session is
\* fresh again when no call is in flight on the id
Recount(session_id) ==
  [n |-> 0, seq |-> InFlight(session_id) = {}]

\* the stored topic of session_id, None for an unknown id
TopicOf(session_id) ==
  IF session_id \in DOMAIN sessions THEN heap[sessions[session_id]].topic
  ELSE None

(* ---------------------------- operations ------------------------------- *)
\* variant: an existing session is kept and returned (setdefault)
create_session_keep(session_id) ==
  LET known == session_id \in DOMAIN sessions
      r  == IF known THEN sessions[session_id] ELSE NewRef
      h1 == IF known THEN heap ELSE Alloc(heap, EssaySession(session_id))
      s1 == Bind(session_id, r)
  IN  \E c \in {Collect(h1, s1, local, held)} :
      /\ sessions' = c.sessions
      /\ heap' = c.heap
      /\ local' = c.local
      /\ held' = c.held
      /\ call' = call
      /\ turns' = [turns EXCEPT ![session_id] = Recount(session_id)]
      /\ lastOp' = [op |-> "create_session", id |-> session_id,
                    ret |-> c.sessions[session_id],
                    existed |-> session_id \in DOMAIN sessions,
                    had |-> Len(get_session_history(session_id)),
                    topic0 |-> TopicOf(session_id)]
      /\ UNCHANGED <<pc, tutor>>

\* create_session, lines 63-67
create_session(session_id) ==
  LET r  == NewRef
      h1 == Alloc(heap, EssaySession(session_id))
      s1 == Bind(session_id, r)
  IN  \E c \in {Collect(h1, s1, local, held)} :
      /\ sessions' = c.sessions
      /\ heap' = c.heap
      /\ local' = c.local
      /\ held' = c.held
      /\ call' = Disturb(session_id)
      /\ turns' = [turns EXCEPT ![session_id] = Recount(session_id)]
      /\ lastOp' = [op |-> "create_session", id |-> session_id,
                    ret |-> c.sessions[session_id],
                    existed |-> session_id \in DOMAIN sessions,
                    had |-> Len(get_session_history(session_id)),
                    topic0 |-> TopicOf(session_id)]
      /\ UNCHANGED <<pc, tutor>>

\* variant: the messages of the stored object are cleared in place
reset_session_clear(session_id) ==
  IF session_id \in DOMAIN sessions
  THEN /\ heap' = [heap EXCEPT ![sessions[session_id]].messages = <<>>]
       /\ turns' = [turns EXCEPT ![session_id] = Recount(session_id)]
       /\ lastOp' = [op |-> "reset_session", id |-> session_id,
                     ret |-> TRUE, existed |-> TRUE,
                     had |-> Len(get_session_history(session_id)),
                     topic0 |-> TopicOf(session_id)]
       /\ UNCHANGED <<sessions, pc, local, call, held, tutor>>
  ELSE /\ lastOp' = [op |-> "reset_session", id |-> session_id,
                     ret |-> FALSE, existed |-> FALSE, had |-> 0,
                     topic0 |-> None]
       /\ UNCHANGED <<sessions, heap, pc, local, call, turns, held, tutor>>

\* variant: the membership test is missing, the session is always replaced
reset_session_upsert(session_id) ==
  LET r  == NewRef
      h1 == Alloc(heap, EssaySession(session_id))
      s1 == Bind(session_id, r)
  IN  \E c \in {Collect(h1, s1, local, held)} :
      /\ sessions' = c.sessions
      /\ heap' = c.heap
      /\ local' = c.local
      /\ held' = c.held
      /\ call' = Disturb(session_id)
      /\ turns' = [turns EXCEPT ![session_id] = Recount(session_id)]
      /\ lastOp' = [op |-> "reset_session", id |-> session_id,
                    ret |-> TRUE,
                    existed |-> session_id \in DOMAIN sessions,
                    had |-> Len(get_session_history(session_id)),
                    topic0 |-> TopicOf(session_id)]
      /\ UNCHANGED <<pc, tutor>>

\* reset_session, lines 131-136
reset_session(session_id) ==
  IF session_id \in DOMAIN sessions
  THEN LET r  == NewRef
           h1 == Alloc(heap, EssaySession(session_id))
           s1 == Bind(session_id, r)
       IN  \E c \in {Collect(h1, s1, local, held)} :
           /\ sessions' = c.sessions
           /\ heap' = c.heap
           /\ local' = c.local
           /\ held' = c.held
           /\ call' = Disturb(session_id)
           /\ turns' = [turns EXCEPT ![session_id] = Recount(session_id)]
           /\ lastOp' = [op |-> "reset_session", id |-> session_id,
                         ret |-> TRUE, existed |-> TRUE,
                         had |-> Len(get_session_history(session_id)),
                         topic0 |-> TopicOf(session_id)]
           /\ UNCHANGED <<pc, tutor>>
  ELSE /\ lastOp' = [op |-> "reset_session", id |-> session_id,
                     ret |-> FALSE, existed |-> FALSE, had |-> 0,
                     topic0 |-> None]
       /\ UNCHANGED <<sessions, heap, pc, local, call, turns, held, tutor>>

\* a collaborator assigns session.topic on the stored object
\* (tests/test_essay_tutor.py line 228)
set_topic(session_id, t) ==
  /\ session_id \in DOMAIN sessions
  /\ heap[sessions[session_id]].topic # Str(t)
  /\ heap' = [heap EXCEPT ![sessions[session_id]].topic = Str(t)]
  /\ lastOp' = [op |-> "set_topic", id |-> session_id]
  /\ UNCHANGED <<sessions, pc, local, call, turns, held, tutor>>

\* variant: a session is created on every call
NeedsSession_always(session_id) == TRUE

\* line 71: the id has no session yet
NeedsSession(session_id) == session_id \notin DOMAIN sessions

\* variant: the stored content is the text with a speaker label
UserMessage_labelled(user_message) ==
  Message("user", Str("User: " \o user_message))

\* lines 77-81: the stored user message
UserMessage(user_message) == Message("user", Str(user_message))

\* get_response, lines 69-94: from the call to the suspension at the await
get_response_dispatch(p, session_id, user_message) ==
  /\ pc[p] = "idle"
  /\ LET \* lines 71-72: await create_session (no suspension inside)
         new == NeedsSession(session_id)
         r  == IF new THEN NewRef ELSE sessions[session_id]
         h1 == IF new THEN Alloc(heap, EssaySession(session_id)) ELSE heap
         s1 == IF new THEN Bind(session_id, r) ELSE sessions
         \* lines 77-81
         h2 == Append_messages(h1, r, UserMessage(user_message))
         \* lines 84-91
         req == BuildRequest(h2[r].messages)
         l1 == [local EXCEPT ![p] =
                  [session_id |-> session_id, user_message |-> user_message,
                   session |-> r, messages |-> req]]
         others == InFlight(session_id)
     IN  \E c \in {Collect(h2, s1, l1, held)} :
         /\ sessions' = c.sessions
         /\ heap' = c.heap
         /\ local' = c.local
         /\ held' = c.held
         /\ pc' = [pc EXCEPT ![p] = "awaiting"]
         /\ call' = [q \in Procs |->
                       IF q = p
                       THEN [existed |-> session_id \in DOMAIN sessions,
                             solo |-> others = {}, kept |-> TRUE,
                             before |-> get_session_history(session_id),
                             topic0 |-> TopicOf(session_id),
                             sent |-> 1]
                       ELSE IF q \in others
                            THEN [call[q] EXCEPT !.solo = FALSE]
                            ELSE call[q]]
         /\ turns' = [turns EXCEPT ![session_id] =
                        IF @.seq /\ others = {} THEN @
                        ELSE [n |-> 0, seq |-> FALSE]]
         /\ lastOp' = [op |-> "dispatch", id |-> session_id, p |-> p]
         /\ UNCHANGED tutor

\* the exception the try block of lines 93-110 raises on a response
NoException == [class |-> "", text |-> ""]
Raised(response) ==
  IF response.kind = "raise"
  THEN [class |-> "APIError", text |-> response.error]
  ELSE IF response.choices = <<>>
       THEN [class |-> "IndexError", text |-> IndexErrorText]
       ELSE NoException

\* line 112: except Exception catches every subclass of Exception
Catches(exc) == exc.class \in {"APIError", "IndexError"}

\* variant: the error text without the fixed prefix
ErrorMessage_bare(exc) == Str(exc.text)

\* line 113: the synthesized error text
ErrorMessage(exc) == Str(ErrorPrefix \o exc.text)

\* the value lines 110 and 119 return: choices[0].message.content or the
\* synthesized error
Reply(response) ==
  IF Raised(response) = NoException THEN response.choices[1]
  ELSE ErrorMessage(Raised(response))

\* variant: a reply takes the place of a reply that ends the log, so that
\* no two assistant messages follow each other
RecordReply_paired(h, r, response) ==
  IF Raised(response) # NoException /\ ~Catches(Raised(response)) THEN h
  ELSE LET msgs == h[r].messages
           m == Message("assistant", Reply(response))
       IN  IF msgs # <<>> /\ msgs[Len(msgs)].role = "assistant"
           THEN [h EXCEPT ![r].messages[Len(msgs)] = m]
           ELSE Append_messages(h, r, m)

\* variant: the session moves to the next stage once the tutor has answered
RecordReply_advance(h, r, response) ==
  IF Raised(response) # NoException /\ ~Catches(Raised(response)) THEN h
  ELSE [Append_messages(h, r, Message("assistant", Reply(response)))
          EXCEPT ![r].current_stage = "brainstorming"]

\* variant: the except branch returns the error text without appending it
RecordReply_successOnly(h, r, response) ==
  IF Raised(response) # NoException THEN h
  ELSE Append_messages(h, r, Message("assistant", Reply(response)))

\* lines 104-108 and 114-118: the assistant message appended to the object
\* the coroutine holds; nothing is appended when the exception propagates
RecordReply(h, r, response) ==
  IF Raised(response) # NoException /\ ~Catches(Raised(response)) THEN h
  ELSE Append_messages(h, r, Message("assistant", Reply(response)))

\* variant: the session is looked up in self.sessions again after the await
ReplyTarget_lookup(p) == get_session_info(local[p].session_id)

\* lines 104 and 114: the object the local `session` was bound to at line 74
ReplyTarget(p) == local[p].session

\* variant: a dispatch that failed is made again until the service answers
get_response_resume_spin(p, response) ==
  /\ pc[p] = "awaiting"
  /\ response \in Completions(local[p].messages)
  /\ IF Raised(response) # NoException
     THEN /\ lastOp' = [op |-> "retry", id |-> local[p].session_id, p |-> p,
                         odd |-> ~(lastOp.op = "retry" /\ lastOp.odd)]
          /\ UNCHANGED <<sessions, heap, pc, local, call, turns, held, tutor>>
     ELSE LET h1 == RecordReply(heap, ReplyTarget(p), response)
              l1 == [local EXCEPT ![p] = NoLocal]
          IN  \E c \in {Collect(h1, sessions, l1, held)} :
              /\ sessions' = c.sessions
              /\ heap' = c.heap
              /\ local' = c.local
              /\ held' = c.held
              /\ pc' = [pc EXCEPT ![p] = "idle"]
              /\ call' = [call EXCEPT ![p] = NoCall]
              /\ turns' = [turns EXCEPT ![local[p].session_id].n =
                             IF turns[local[p].session_id].seq THEN @ + 1
                             ELSE 0]
              /\ lastOp' = [op |-> "get_response",
                            id |-> local[p].session_id,
                            p |-> p, text |-> local[p].user_message,
                            response |-> response,
                            raised |-> FALSE,
                            ret |-> Reply(response),
                            existed |-> call[p].existed,
                            solo |-> call[p].solo, kept |-> call[p].kept,
                            before |-> call[p].before,
                            topic0 |-> call[p].topic0,
                            sent |-> call[p].sent]
              /\ UNCHANGED tutor

\* variant: a dispatch that failed is made once more, and the second answer
\* ends the call
get_response_resume_retry(p, response) ==
  /\ pc[p] = "awaiting"
  /\ response \in Completions(local[p].messages)
  /\ \E again \in Completions(local[p].messages) :
     LET failed == Raised(response) # NoException
         final == IF failed THEN again ELSE response
         h1 == RecordReply(heap, ReplyTarget(p), final)
         l1 == [local EXCEPT ![p] = NoLocal]
         escaped == Raised(final) # NoException /\ ~Catches(Raised(final))
     IN  \E c \in {Collect(h1, sessions, l1, held)} :
         /\ sessions' = c.sessions
         /\ heap' = c.heap
         /\ local' = c.local
         /\ held' = c.held
         /\ pc' = [pc EXCEPT ![p] = "idle"]
         /\ call' = [call EXCEPT ![p] = NoCall]
         /\ turns' = [turns EXCEPT ![local[p].session_id].n =
                        IF turns[local[p].session_id].seq THEN @ + 1 ELSE 0]
         /\ lastOp' = [op |-> "get_response", id |-> local[p].session_id,
                       p |-> p, text |-> local[p].user_message,
                       response |-> final,
                       raised |-> escaped,
                       ret |-> IF escaped THEN None ELSE Reply(final),
                       existed |-> call[p].existed,
                       solo |-> call[p].solo, kept |-> call[p].kept,
                       before |-> call[p].before,
                       topic0 |-> call[p].topic0,
                       sent |-> call[p].sent + (IF failed THEN 1 ELSE 0)]
         /\ UNCHANGED tutor

\* get_response, lines 94-119: the completion call answers or fails
get_response_resume(p, response) ==
  /\ pc[p] = "awaiting"
  /\ response \in Completions(local[p].messages)
  /\ LET h1 == RecordReply(heap, ReplyTarget(p), response)
         l1 == [local EXCEPT ![p] = NoLocal]
         escaped == Raised(response) # NoException /\ ~Catches(Raised(response))
     IN  \E c \in {Collect(h1, sessions, l1, held)} :
         /\ sessions' = c.sessions
         /\ heap' = c.heap
         /\ local' = c.local
         /\ held' = c.held
         /\ pc' = [pc EXCEPT ![p] = "idle"]
         /\ call' = [call EXCEPT ![p] = NoCall]
         /\ turns' = [turns EXCEPT ![local[p].session_id].n =
                        IF turns[local[p].session_id].seq THEN @ + 1 ELSE 0]
         /\ lastOp' = [op |-> "get_response", id |-> local[p].session_id,
                       p |-> p, text |-> local[p].user_message,
                       response |-> response,
                       raised |-> escaped,
                       ret |-> IF escaped THEN None ELSE Reply(response),
                       existed |-> call[p].existed,
                       solo |-> call[p].solo, kept |-> call[p].kept,
                       before |-> call[p].before,
                       topic0 |-> call[p].topic0,
                       sent |-> call[p].sent]
         /\ UNCHANGED tutor

(* ----------------------- callers of the reads -------------------------- *)
\* the items of a list l a caller holds, in heap h
ListOf(l, h) == IF l.alias # NoRef THEN h[l.alias].messages ELSE l.items

\* variant: the stored list itself is returned, without .copy()
HistoryResult_live(session_id) ==
  [some |-> TRUE, alias |-> get_session_info(session_id), items |-> <<>>,
   edits |-> 0]

\* lines 123-125: a new empty list, or a copy of the stored list
HistoryResult(session_id) ==
  [some |-> TRUE, alias |-> NoRef, items |-> get_session_history(session_id),
   edits |-> 0]

\* a caller calls get_session_history and keeps the list it returns
call_get_session_history(session_id) ==
  LET hd == [held EXCEPT !.hist = HistoryResult(session_id)]
  IN  \E c \in {Collect(heap, sessions, local, hd)} :
      /\ sessions' = c.sessions
      /\ heap' = c.heap
      /\ local' = c.local
      /\ held' = c.held
      /\ lastOp' = [op |-> "get_session_history", id |-> session_id,
                    ret |-> ListOf(c.held.hist, c.heap)]
      /\ UNCHANGED <<pc, call, turns, tutor>>

\* the count of turns after a caller changed object r: the ids bound to r
\* have seen more than get_response calls
Meddled(r) ==
  [i \in IDs |-> IF get_session_info(i) = r /\ r # NoRef
                 THEN [n |-> 0, seq |-> FALSE] ELSE turns[i]]

\* the message a caller puts into a list it was given
CallerMessage == Message("user", Str("note"))

\* list.append, list.pop and list.reverse on the items s
EditList(s, e) ==
  CASE e = "append"  -> Append(s, CallerMessage)
    [] e = "pop"     -> SubSeq(s, 1, Len(s) - 1)
    [] e = "reverse" -> [k \in 1..Len(s) |-> s[Len(s) + 1 - k]]

ListEdits == {"append", "pop", "reverse"}

\* the caller changes the list get_session_history returned
edit_history(e) ==
  /\ held.hist.some
  /\ held.hist.edits < MaxEdits
  /\ e = "pop" => ListOf(held.hist, heap) # <<>>
  /\ LET new == EditList(ListOf(held.hist, heap), e)
     IN  IF held.hist.alias # NoRef
         THEN /\ heap' = [heap EXCEPT ![held.hist.alias].messages = new]
              /\ held' = [held EXCEPT !.hist.edits = @ + 1]
         ELSE /\ heap' = heap
              /\ held' = [held EXCEPT !.hist.items = new,
                                       !.hist.edits = @ + 1]
  /\ turns' = Meddled(held.hist.alias)
  /\ lastOp' = [op |-> "edit_history", edit |-> e]
  /\ UNCHANGED <<sessions, pc, local, call, tutor>>

\* variant: a session is stored for an unknown id (dict.setdefault)
InfoResult_setdefault(h, session_id) ==
  IF session_id \in DOMAIN sessions
  THEN [heap |-> h, sessions |-> sessions, ref |-> sessions[session_id]]
  ELSE [heap |-> Alloc(h, EssaySession(session_id)),
        sessions |-> Bind(session_id, Len(h) + 1), ref |-> Len(h) + 1]

\* line 129: the object self.sessions holds, or None; nothing is written
InfoResult(h, session_id) ==
  [heap |-> h, sessions |-> sessions, ref |-> get_session_info(session_id)]

\* a caller calls get_session_info and keeps the object it returns
call_get_session_info(session_id) ==
  LET res == InfoResult(heap, session_id)
      hd  == [held EXCEPT !.info = res.ref]
  IN  \E c \in {Collect(res.heap, res.sessions, local, hd)} :
      /\ sessions' = c.sessions
      /\ heap' = c.heap
      /\ local' = c.local
      /\ held' = c.held
      /\ lastOp' = [op |-> "get_session_info", id |-> session_id,
                    ret |-> c.held.info]
      /\ UNCHANGED <<pc, call, turns, tutor>>

\* a stage other than the initial one (system prompt, line 53)
OtherStage == "brainstorming"

\* the object o after the caller assigns field f
EditObject(o, f, t) ==
  CASE f = "topic"         -> [o EXCEPT !.topic = Str(t)]
    [] f = "current_stage" -> [o EXCEPT !.current_stage = OtherStage]
    [] f = "messages"      -> [o EXCEPT !.messages = <<>>]

ObjectFields == {"topic", "current_stage", "messages"}

\* the caller changes the object get_session_info returned
edit_info(f, t) ==
  /\ held.info # NoRef
  /\ EditObject(heap[held.info], f, t) # heap[held.info]
  /\ heap' = [heap EXCEPT ![held.info] = EditObject(@, f, t)]
  /\ turns' = Meddled(held.info)
  /\ lastOp' = [op |-> "edit_info", field |-> f]
  /\ UNCHANGED <<sessions, pc, local, call, held, tutor>>

(* -------------------------- specifications ----------------------------- *)
\* the stored log of session_id may still grow by a turn
Room(session_id, max) == Len(get_session_history(session_id)) < max

\* two coroutines on one session id: calls overlap each other and overlap
\* create_session and reset_session
Next ==
  \/ \E i \in OneID : create_session(i)
  \/ \E i \in OneID : reset_session(i)
  \/ \E i \in OneID, t \in Topics : set_topic(i, t)
  \/ \E p \in Procs, i \in OneID, t \in Texts :
       Room(i, MaxMsgs) /\ get_response_dispatch(p, i, t)
  \/ \E p \in Procs : pc[p] = "awaiting" /\
       \E r \in Completions(local[p].messages) : get_response_resume(p, r)

Spec == Init /\ [][Next]_vars

\* one caller, several session ids
NextStore ==
  \/ \E i \in IDs : create_session(i)
  \/ \E i \in IDs : reset_session(i)
  \/ \E i \in IDs, t \in Topics : set_topic(i, t)
  \/ \E p \in SeqProcs, i \in IDs, t \in Texts :
       Room(i, MaxStoreMsgs) /\ get_response_dispatch(p, i, t)
  \/ \E p \in SeqProcs : pc[p] = "awaiting" /\
       \E r \in Completions(local[p].messages) : get_response_resume(p, r)

SpecStore == Init /\ [][NextStore]_vars

\* one caller, one session id, turns one after another, long logs
NextSeq ==
  \/ \E i \in OneID : create_session(i)
  \/ \E i \in OneID : reset_session(i)
  \/ \E i \in OneID, t \in Topics : set_topic(i, t)
  \/ \E p \in SeqProcs, i \in OneID, t \in SeqTexts :
       Room(i, MaxSeqMsgs) /\ get_response_dispatch(p, i, t)
  \/ \E p \in SeqProcs : pc[p] = "awaiting" /\
       \E r \in Completions(local[p].messages) : get_response_resume(p, r)

SpecSeq == Init /\ [][NextSeq]_vars

\* one caller and one session id, with a caller that reads, and keeps and
\* changes the list get_session_history returns
NextRead ==
  \/ \E i \in OneID : create_session(i)
  \/ \E i \in OneID : reset_session(i)
  \/ \E p \in SeqProcs, i \in OneID, t \in SeqTexts :
       Room(i, MaxReadMsgs) /\ get_response_dispatch(p, i, t)
  \/ \E p \in SeqProcs : pc[p] = "awaiting" /\
       \E r \in Completions(local[p].messages) : get_response_resume(p, r)
  \/ \E i \in OneID : call_get_session_history(i)
  \/ \E e \in ListEdits : edit_history(e)
  \/ \E i \in OneID : call_get_session_info(i)

SpecRead == Init /\ [][NextRead]_vars

\* one caller and one session id, with a caller that keeps and changes the
\* object get_session_info returns
NextInfo ==
  \/ \E i \in OneID : create_session(i)
  \/ \E i \in OneID : reset_session(i)
  \/ \E p \in SeqProcs, i \in OneID, t \in SeqTexts :
       Room(i, MaxReadMsgs) /\ get_response_dispatch(p, i, t)
  \/ \E p \in SeqProcs : pc[p] = "awaiting" /\
       \E r \in Completions(local[p].messages) : get_response_resume(p, r)
  \/ \E i \in OneID : call_get_session_info(i)
  \/ \E f \in ObjectFields, t \in Topics : edit_info(f, t)

SpecInfo == Init /\ [][NextInfo]_vars

\* two coroutines and two session ids, at most one call in flight on each
\* id: the calls on different ids overlap
NextPar ==
  \/ \E i \in IDs : create_session(i)
  \/ \E i \in IDs : reset_session(i)
  \/ \E i \in IDs, t \in Topics : set_topic(i, t)
  \/ \E p \in Procs, i \in IDs, t \in SeqTexts :
       InFlight(i) = {} /\ Room(i, MaxParMsgs) /\
       get_response_dispatch(p, i, t)
  \/ \E p \in Procs : pc[p] = "awaiting" /\
       \E r \in Completions(local[p].messages) : get_response_resume(p, r)

SpecPar == Init /\ [][NextPar]_vars

\* two coroutines on one session id and no create_session or reset_session:
\* the calls overlap each other only
NextRace ==
  \/ \E p \in Procs, i \in OneID, t \in Texts :
       Room(i, MaxRaceMsgs) /\ get_response_dispatch(p, i, t)
  \/ \E p \in Procs : pc[p] = "awaiting" /\
       \E r \in Completions(local[p].messages) : get_response_resume(p, r)

SpecRace == Init /\ [][NextRace]_vars

\* the completion service answers or fails the request of coroutine p, and
\* the event loop resumes the coroutine
Answer(p) ==
  /\ pc[p] = "awaiting"
  /\ \E r \in Completions(local[p].messages) : get_response_resume(p, r)

\* two coroutines on one session id, with create_session and reset_session
NextLive ==
  \/ \E i \in OneID : create_session(i)
  \/ \E i \in OneID : reset_session(i)
  \/ \E p \in Procs, i \in OneID, t \in SeqTexts :
       Room(i, MaxLiveMsgs) /\ get_response_dispatch(p, i, t)
  \/ \E p \in Procs : Answer(p)

\* the completion service eventually answers or fails every request
Responsive == \A p \in Procs : WF_vars(Answer(p))

SpecLive == Init /\ [][NextLive]_vars /\ Responsive

\* from before the construction: the tutor is built (Home.py line 12, main
\* line 143), then one caller uses it on one session id
NextCtor ==
  \/ \E k \in Keys, e \in Keys : EssayTutor_init(k, e)
  \/ \E i \in OneID : Ready /\ create_session(i)
  \/ \E i \in OneID : Ready /\ reset_session(i)
  \/ \E i \in OneID, t \in Topics : Ready /\ set_topic(i, t)
  \/ \E p \in SeqProcs, i \in OneID, t \in Texts :
       Ready /\ Room(i, MaxReadMsgs) /\ get_response_dispatch(p, i, t)
  \/ \E p \in SeqProcs : Ready /\ pc[p] = "awaiting" /\
       \E r \in Completions(local[p].messages) : get_response_resume(p, r)

SpecCtor == InitCtor /\ [][NextCtor]_vars

TypeOK ==
  /\ DOMAIN sessions \subseteq IDs
  /\ \A i \in DOMAIN sessions : sessions[i] \in DOMAIN heap
  /\ \A p \in Procs : pc[p] = "awaiting" => local[p].session \in DOMAIN heap

(* ------------------------------ claims --------------------------------- *)
\* roles alternate user, assistant, starting with user
Alternating(log) ==
  \A k \in 1..Len(log) :
    log[k].role = (IF k % 2 = 1 THEN "user" ELSE "assistant")

\* the string s begins with the string pre
HasPrefix(s, pre) == Len(s) >= Len(pre) /\ SubSeq(s, 1, Len(pre)) = pre

\* the last step is the return of a get_response call
Returned == lastOp.op = "get_response"

\* the two messages a returned call is expected to have stored
TurnOf(op) ==
  << [role |-> "user", content |-> <<op.text>>],
     [role |-> "assistant", content |-> op.ret] >>

\* the completion service failed: it raised, or it answered without choices
Failed(response) ==
  response.kind = "raise" \/ response.choices = <<>>

\* C1: on a session id that has seen nothing but get_response calls run one
\* after another since it was fresh (never seen, or created or reset with no
\* call in flight), once the N-th call has returned get_session_history
\* holds exactly 2N messages and their roles alternate user, assistant,
\* starting with user.
C1_TwoMessagesPerTurn ==
  \A i \in IDs :
    (turns[i].seq /\ InFlight(i) = {}) =>
      /\ Len(get_session_history(i)) = 2 * turns[i].n
      /\ Alternating(get_session_history(i))

C1_Witness ==
  /\ turns["s1"].seq
  /\ turns["s1"].n = 6
  /\ InFlight("s1") = {}
  /\ Returned

\* C2 as stated: a get_response call that met no other get_response on its
\* id returns with the log stored under the id being the log stored there
\* when it started plus its user message and its assistant message.
C2_AsStated ==
  (Returned /\ lastOp.solo) =>
    get_session_history(lastOp.id) = lastOp.before \o TurnOf(lastOp)

\* C2 amended: a get_response call that met no other get_response on its id
\* and no create_session or reset_session of its id returns with the log
\* stored under the id being the log stored there when it started plus
\* exactly two messages: its user message, then its assistant message (the
\* reply, or the synthesized error).
C2_TwoAppends ==
  (Returned /\ lastOp.solo /\ lastOp.kept) =>
    /\ ~lastOp.raised
    /\ get_session_history(lastOp.id) = lastOp.before \o TurnOf(lastOp)

C2_Witness ==
  /\ Returned /\ lastOp.solo /\ lastOp.kept
  /\ Failed(lastOp.response)
  /\ Len(get_session_history(lastOp.id)) = 2

\* C3: when the completion service fails, get_response does not raise and
\* returns a string that begins with "Sorry, I encountered an error: "; the
\* history of the id (no other call, create or reset on the id meanwhile)
\* has grown by exactly the user message and an assistant message whose
\* content is the returned string.
C3_ErrorIsReturned ==
  (Returned /\ Failed(lastOp.response)) =>
    /\ ~lastOp.raised
    /\ IsStr(lastOp.ret)
    /\ HasPrefix(lastOp.ret[1], "Sorry, I encountered an error: ")
    /\ (lastOp.solo /\ lastOp.kept) =>
         get_session_history(lastOp.id) = lastOp.before \o TurnOf(lastOp)

C3_Witness ==
  /\ Returned /\ lastOp.response.kind = "raise"
  /\ lastOp.solo /\ lastOp.kept
  /\ Len(lastOp.before) >= 2
  /\ lastOp.ret = <<"Sorry, I encountered an error: API Error">>

\* C4: every get_response call returns without raising and the value it
\* returns is a text, whatever the completion service did.
C4_AlwaysText ==
  Returned => (~lastOp.raised /\ IsStr(lastOp.ret))

\* C5: the request a get_response dispatches is the system instruction
\* followed by a window of the stored messages as they are after the user
\* message was appended: the last 10 in stored order when more than 10 are
\* stored, all of them otherwise, each with its stored role and content.
C5_RequestWindow ==
  \A p \in Procs :
    (lastOp.op = "dispatch" /\ lastOp.p = p) =>
      LET req == local[p].messages
          log == heap[local[p].session].messages
          M   == Len(log)
          W   == IF M > 10 THEN 10 ELSE M
      IN  /\ Len(req) = W + 1
          /\ req[1] = [role |-> "system", content |-> <<system_prompt>>]
          /\ \A k \in 1..W :
               /\ req[k + 1].role = log[M - W + k].role
               /\ req[k + 1].content = log[M - W + k].content
          /\ log[M] = [role |-> "user", content |-> <<local[p].user_message>>]

C5_Witness ==
  /\ lastOp.op = "dispatch"
  /\ Len(get_session_history(lastOp.id)) = 11
  /\ Len(local[lastOp.p].messages) = 11

\* C6: when the completion service answers with a choice, get_response
\* returns exactly the content of that choice, and (no other call, create
\* or reset on the id meanwhile) the last two stored messages are the user
\* message with the caller's text verbatim and the assistant message with
\* the returned content; with the echoing service, get_response("s1","hi")
\* on a new id returns "OK:hi" and the history is
\* [(user,"hi"),(assistant,"OK:hi")].
C6_ReplyReturnedAndStored ==
  (Returned /\ ~Failed(lastOp.response)) =>
    LET h == get_session_history(lastOp.id) IN
    /\ ~lastOp.raised
    /\ lastOp.ret = lastOp.response.choices[1]
    /\ (lastOp.solo /\ lastOp.kept) =>
         /\ Len(h) >= 2
         /\ h[Len(h) - 1] = [role |-> "user", content |-> <<lastOp.text>>]
         /\ h[Len(h)] = [role |-> "assistant", content |-> lastOp.ret]
    /\ (lastOp.solo /\ lastOp.kept /\ ~lastOp.existed /\ lastOp.text = "hi"
          /\ lastOp.response.choices[1] = <<"OK:hi">>) =>
         /\ lastOp.ret = <<"OK:hi">>
         /\ h = << [role |-> "user", content |-> <<"hi">>],
                   [role |-> "assistant", content |-> <<"OK:hi">>] >>

C6_Witness ==
  /\ Returned /\ lastOp.id = "s1" /\ lastOp.text = "hi"
  /\ lastOp.solo /\ lastOp.kept /\ ~lastOp.existed
  /\ lastOp.ret = <<"OK:hi">>
  /\ Len(get_session_history("s1")) = 2

\* C7: get_response on an id without a session creates the session, and
\* when the call returns (no other call, create or reset on the id
\* meanwhile) the session holds exactly one user/assistant pair;
\* get_response on an id that has a session keeps that session: its topic,
\* its stage and the messages already stored, to which the turn is added.
C7_AutoCreate ==
  /\ \A p \in Procs :
       (lastOp.op = "dispatch" /\ lastOp.p = p) =>
         /\ lastOp.id \in DOMAIN sessions
         /\ local[p].session = sessions[lastOp.id]
         /\ heap[sessions[lastOp.id]] =
              [session_id |-> lastOp.id,
               topic |-> call[p].topic0,
               messages |-> call[p].before \o
                  << [role |-> "user", content |-> <<local[p].user_message>>] >>,
               current_stage |-> "topic_selection"]
         /\ ~call[p].existed => (call[p].before = <<>> /\ call[p].topic0 = <<>>)
  /\ (Returned /\ lastOp.solo /\ lastOp.kept) =>
       LET h == get_session_history(lastOp.id) IN
       /\ lastOp.id \in DOMAIN sessions
       /\ ~lastOp.existed =>
            /\ Len(h) = 2
            /\ h[1] = [role |-> "user", content |-> <<lastOp.text>>]
            /\ h[2].role = "assistant"
       /\ lastOp.existed =>
            /\ Len(h) = Len(lastOp.before) + 2
            /\ SubSeq(h, 1, Len(lastOp.before)) = lastOp.before

C7_Witness ==
  /\ Returned /\ lastOp.solo /\ lastOp.kept /\ ~lastOp.existed
  /\ Len(get_session_history(lastOp.id)) = 2

\* C8: reset_session on an id that has a session returns true and leaves
\* under the same id a session like a new one: no messages, no topic, the
\* stage topic_selection.
C8_ResetGivesFreshSession ==
  (lastOp.op = "reset_session" /\ lastOp.existed) =>
    /\ lastOp.ret = TRUE
    /\ lastOp.id \in DOMAIN sessions
    /\ get_session_history(lastOp.id) = <<>>
    /\ heap[sessions[lastOp.id]] =
         [session_id |-> lastOp.id, topic |-> <<>>, messages |-> <<>>,
          current_stage |-> "topic_selection"]

C8_Witness ==
  /\ lastOp.op = "reset_session" /\ lastOp.existed
  /\ lastOp.had = 2
  /\ lastOp.topic0 # None

\* C9: reset_session on an id without a session returns false, creates no
\* session (get_session_info of the id is still absent) and changes no
\* session of the store.
C9_ResetUnknownIsNoOp ==
  [][ (lastOp'.op = "reset_session" /\ lastOp'.id \notin DOMAIN sessions) =>
        /\ lastOp'.ret = FALSE
        /\ lastOp'.id \notin DOMAIN sessions'
        /\ sessions' = sessions
        /\ heap' = heap ]_vars

C9_Witness ==
  /\ lastOp.op = "reset_session" /\ ~lastOp.existed
  /\ lastOp.ret = FALSE
  /\ get_session_info(lastOp.id) = NoRef
  /\ \E j \in DOMAIN sessions : Len(get_session_history(j)) = 2

\* C10: create_session on an id whose session holds messages replaces it
\* with a new empty session (no messages, no topic, stage topic_selection)
\* and returns that new session: the prior history is gone.
C10_CreateReplaces ==
  (lastOp.op = "create_session" /\ lastOp.had > 0) =>
    /\ lastOp.id \in DOMAIN sessions
    /\ lastOp.ret = sessions[lastOp.id]
    /\ get_session_history(lastOp.id) = <<>>
    /\ heap[lastOp.ret] =
         [session_id |-> lastOp.id, topic |-> <<>>, messages |-> <<>>,
          current_stage |-> "topic_selection"]

C10_Witness ==
  /\ lastOp.op = "create_session"
  /\ lastOp.had = 2
  /\ lastOp.topic0 # None

\* what the store holds: the session object stored under each id
StoreView == [i \in DOMAIN sessions |-> heap[sessions[i]]]

\* the last step is a change a caller made to the list it holds
EditedList == lastOp.op = "edit_history"

\* C11: get_session_history(id) returns a copy of the stored message
\* sequence: it equals the stored log at the call, an append, a removal or
\* a reordering made on the returned list leaves every stored session as it
\* was, and a later step of get_response leaves a list returned earlier as
\* it was.
C11_HistoryIsACopy ==
  [][ /\ lastOp'.op = "get_session_history" =>
           /\ lastOp'.ret = get_session_history(lastOp'.id)
           /\ ListOf(held'.hist, heap') = get_session_history(lastOp'.id)
      /\ EditedList' => StoreView' = StoreView
      /\ (held.hist.some /\ lastOp'.op \in {"dispatch", "get_response"}) =>
           ListOf(held'.hist, heap') = ListOf(held.hist, heap) ]_vars

\* a list returned during a call (one message stored) got a message of the
\* caller, then the call returned: the store holds the turn, the list does
\* not
C11_Witness ==
  /\ Returned
  /\ held.hist.edits = 1
  /\ ListOf(held.hist, heap) = <<UserMessage("hi"), CallerMessage>>
  /\ Len(get_session_history("s1")) = 2
  /\ get_session_history("s1")[2].role = "assistant"

\* the last step is a construction of the tutor
Built == lastOp.op = "__init__"

\* C12: a construction with no api_key argument and no OPENAI_API_KEY in
\* the environment raises ValueError and leaves no usable tutor, no session
\* map and no session; a construction with a credential (as argument or in
\* the environment) succeeds and the tutor starts with an empty session
\* map; no session exists while no tutor is constructed.
C12_CredentialRequired ==
  /\ (Built /\ lastOp.api_key = None /\ lastOp.env = None) =>
       /\ lastOp.raised = "ValueError"
       /\ ~Ready
       /\ ~tutor.has_sessions
  /\ (Built /\ (Truthy(lastOp.api_key) \/ Truthy(lastOp.env))) =>
       /\ lastOp.raised = ""
       /\ Ready
       /\ tutor.has_sessions
       /\ Truthy(tutor.api_key)
       /\ DOMAIN sessions = {}
  /\ ~Ready => (~tutor.has_sessions /\ DOMAIN sessions = {} /\ heap = <<>>)

\* a construction with the credential in the environment only succeeds
\* after a construction without any credential failed
C12_Witness ==
  /\ Built
  /\ lastOp.retry
  /\ lastOp.api_key = None /\ lastOp.env = Str("sk-test")
  /\ lastOp.raised = ""
  /\ Ready

\* C13: every get_response call dispatches to the completion service
\* exactly once: a call in flight has made one dispatch, a returned call
\* has made one, and a dispatch that failed is not made again: the call
\* returns the synthesized error message, which is the message it stored.
C13_OneDispatch ==
  /\ \A p \in Procs : call[p].sent = (IF pc[p] = "awaiting" THEN 1 ELSE 0)
  /\ Returned =>
       /\ lastOp.sent = 1
       /\ pc[lastOp.p] = "idle"
       /\ Failed(lastOp.response) =>
            /\ ~lastOp.raised
            /\ lastOp.ret = ErrorMessage(Raised(lastOp.response))
            /\ HasPrefix(lastOp.ret[1], ErrorPrefix)
            /\ (lastOp.solo /\ lastOp.kept) =>
                 get_session_history(lastOp.id) = lastOp.before \o TurnOf(lastOp)

C13_Witness ==
  /\ Returned
  /\ lastOp.response.kind = "raise"
  /\ lastOp.sent = 1
  /\ lastOp.solo /\ lastOp.kept
  /\ Len(get_session_history(lastOp.id)) = 2
  /\ get_session_history(lastOp.id)[2].content =
       Str("Sorry, I encountered an error: API Error")

\* the operations of the tutor that write: the two steps of get_response,
\* create_session and reset_session
WriteOps == {"dispatch", "get_response", "create_session", "reset_session"}

\* the step leaves what is stored under session_id as it was
SameStored(session_id) ==
  /\ (session_id \in DOMAIN sessions') = (session_id \in DOMAIN sessions)
  /\ session_id \in DOMAIN sessions =>
       heap'[sessions'[session_id]] = heap[sessions[session_id]]

\* C14: with calls on different ids overlapping and at most one call in
\* flight on each id, a step of get_response (its dispatch or its return),
\* a create_session or a reset_session on id A leaves the session stored
\* under every other id B as it was (presence, topic, stage and log), and
\* every stored log alternates user, assistant, starting with user.
C14_IdsIndependent ==
  [][ /\ \A a \in IDs :
           (lastOp'.op \in WriteOps /\ lastOp'.id = a) =>
             \A b \in IDs \ {a} : SameStored(b)
      /\ \A i \in IDs : Alternating(get_session_history(i))' ]_vars

\* the call on s1 returns while a call on s2 is suspended at the dispatch,
\* s2's session holding a topic and its user message
C14_Witness ==
  /\ Returned /\ lastOp.id = "s1"
  /\ Len(get_session_history("s1")) = 2
  /\ InFlight("s2") # {}
  /\ TopicOf("s2") # None
  /\ Len(get_session_history("s2")) = 1

\* the read operations
ReadOps == {"get_session_history", "get_session_info"}

\* C15: a call of get_session_history(id) or get_session_info(id) leaves
\* the store as it was (the same ids, every session unchanged); for a
\* known id it returns the stored log and the stored session, for an
\* unknown id the empty sequence and None, and the id stays unknown.
C15_ReadsDoNotWrite ==
  [][ lastOp'.op \in ReadOps =>
        /\ StoreView' = StoreView
        /\ lastOp'.op = "get_session_history" =>
             lastOp'.ret = get_session_history(lastOp'.id)
        /\ lastOp'.op = "get_session_info" =>
             lastOp'.ret = (IF lastOp'.id \in DOMAIN sessions'
                            THEN sessions'[lastOp'.id] ELSE NoRef)
        /\ lastOp'.id \notin DOMAIN sessions =>
             /\ lastOp'.ret = (IF lastOp'.op = "get_session_history"
                               THEN <<>> ELSE NoRef)
             /\ lastOp'.id \notin DOMAIN sessions' ]_vars

\* both reads were made on an id that has no session, and it still has none
C15_Witness ==
  /\ lastOp.op = "get_session_info"
  /\ lastOp.ret = NoRef
  /\ held.hist.some /\ ListOf(held.hist, heap) = <<>>
  /\ lastOp.id \notin DOMAIN sessions

\* the sequence s is a prefix of the sequence t
IsPrefix(s, t) == Len(s) <= Len(t) /\ SubSeq(t, 1, Len(s)) = s

\* the step keeps the log stored under session_id and may append to it
LogGrows(session_id) ==
  IsPrefix(get_session_history(session_id), get_session_history(session_id)')

\* C16 as stated: in every step other than a reset_session of the id, the
\* log stored under the id before the step is a prefix of the log after it.
C16_AsStated ==
  [][ \A i \in IDs :
        ~(lastOp'.op = "reset_session" /\ lastOp'.id = i) => LogGrows(i) ]_vars

\* C16 (amended): in every step of the tutor's operations other than a
\* reset_session or a create_session of the id, the log stored under the id
\* before the step is a prefix of the log after it; the dispatch step of
\* get_response appends the user message to the whole stored log, however
\* long it is, and sends at most WindowSize of its messages.
C16_AppendOnly ==
  [][ /\ \A i \in IDs :
           ~(lastOp'.op \in {"reset_session", "create_session"} /\
             lastOp'.id = i) => LogGrows(i)
      /\ \A p \in Procs, i \in IDs :
           (lastOp'.op = "dispatch" /\ lastOp'.p = p /\ lastOp'.id = i) =>
             /\ get_session_history(i)' =
                  Append(get_session_history(i),
                         UserMessage(local'[p].user_message))
             /\ Len(local'[p].messages) <= WindowSize + 1 ]_vars

\* the sixth turn: twelve messages are stored, the request carries ten
C16_Witness ==
  /\ Returned
  /\ Len(lastOp.before) = 10
  /\ Len(get_session_history(lastOp.id)) = 12
  /\ IsPrefix(lastOp.before, get_session_history(lastOp.id))

\* the roles of stored messages
StoredRoles == {"user", "assistant"}

\* C17: every message of every session object, stored under an id or
\* replaced, has role user or assistant; every outbound request starts with
\* the system instruction and has no other system entry.
C17_SystemOnlyInRequests ==
  /\ \A r \in DOMAIN heap :
       \A k \in 1..Len(heap[r].messages) :
         heap[r].messages[k].role \in StoredRoles
  /\ \A p \in Procs :
       pc[p] = "awaiting" =>
         /\ local[p].messages[1] =
              [role |-> "system", content |-> Str(system_prompt)]
         /\ \A k \in 2..Len(local[p].messages) :
              local[p].messages[k].role \in StoredRoles

\* a request in flight on a log longer than the window: the system
\* instruction, then the last ten of the eleven stored messages
C17_Witness ==
  /\ \E p \in Procs :
       /\ pc[p] = "awaiting"
       /\ Len(local[p].messages) = 11
       /\ local[p].messages[1].role = "system"
       /\ local[p].messages[2].role = "assistant"
       /\ local[p].messages[11].role = "user"
  /\ Len(get_session_history("s1")) = 11

\* the stored stage of session_id
StageOf(session_id) == heap[sessions[session_id]].current_stage

\* C18: the steps of get_response (from the call to the dispatch, and from
\* the answer or failure to the return) leave topic and stage of every
\* stored session as they were; the session a call creates has no topic and
\* stage topic_selection, and only the id of the call gets one.
C18_TopicAndStageKept ==
  [][ lastOp'.op \in {"dispatch", "get_response"} =>
        \A i \in IDs :
          /\ i \in DOMAIN sessions =>
               /\ i \in DOMAIN sessions'
               /\ TopicOf(i)' = TopicOf(i)
               /\ StageOf(i)' = StageOf(i)
          /\ (i \notin DOMAIN sessions /\ i \in DOMAIN sessions') =>
               /\ lastOp'.op = "dispatch" /\ lastOp'.id = i
               /\ TopicOf(i)' = None
               /\ StageOf(i)' = InitialStage ]_vars

\* a call on a session with a topic failed and returned: the topic and the
\* stage are the ones the call found
C18_Witness ==
  /\ Returned
  /\ lastOp.existed /\ lastOp.kept
  /\ Failed(lastOp.response)
  /\ lastOp.topic0 = Str("Climate Change")
  /\ TopicOf(lastOp.id) = lastOp.topic0
  /\ StageOf(lastOp.id) = InitialStage

\* the last step is a change a caller made to the object it holds
EditedInfo == lastOp.op = "edit_info"

\* C19: get_session_info(id) returns a snapshot: a change a caller makes to
\* the returned object (topic, stage or messages) leaves every stored
\* session as it was, and a step of a later get_response leaves an object
\* returned earlier as it was.
C19_InfoIsASnapshot ==
  [][ /\ EditedInfo' => StoreView' = StoreView
      /\ (held.info # NoRef /\ lastOp'.op \in {"dispatch", "get_response"}) =>
           heap'[held'.info] = heap[held.info] ]_vars

\* the stored log of session_id does not start with an assistant message
StartsWithUser(session_id) ==
  get_session_history(session_id) # <<>> =>
    get_session_history(session_id)[1].role = "user"

\* C20: when a reset_session(id) or create_session(id) ran while a
\* get_response(id) was suspended at the dispatch, the return of that call
\* appends its assistant message to the object it holds, which is no longer
\* the one stored under id: the log stored under id is not changed by the
\* return, it is empty when no other call ran on the id meanwhile, a
\* coroutine that still holds the replaced object sees the message there,
\* and no stored log ever starts with an assistant message.
C20_ReplyGoesToReplacedObject ==
  [][ /\ \A p \in Procs, i \in IDs :
           (lastOp'.op = "get_response" /\ lastOp'.p = p /\ lastOp'.id = i /\
            ~lastOp'.kept) =>
             /\ local[p].session # sessions[i]
             /\ get_session_history(i)' = get_session_history(i)
             /\ lastOp'.solo => get_session_history(i)' = <<>>
             /\ \A q \in Procs \ {p} :
                  (pc[q] = "awaiting" /\ local[q].session = local[p].session) =>
                    heap'[local'[q].session].messages =
                      Append(heap[local[p].session].messages,
                             Message("assistant", lastOp'.ret))
      /\ \A i \in IDs : StartsWithUser(i)' ]_vars

\* a call returns after a reset made during its dispatch: the stored log is
\* empty, and the other suspended call, which holds the replaced object,
\* finds the reply at the end of that object's log
C20_Witness ==
  /\ Returned
  /\ ~lastOp.kept
  /\ get_session_history(lastOp.id) = <<>>
  /\ \E q \in Procs :
       /\ pc[q] = "awaiting"
       /\ local[q].session # sessions[lastOp.id]
       /\ heap[local[q].session].messages[Len(heap[local[q].session].messages)]
            = Message("assistant", lastOp.ret)

\* the number of messages of the log with the role
Count(log, role) ==
  Cardinality({k \in 1..Len(log) : log[k].role = role})

\* C21: with calls overlapping on one id and no create or reset, no append
\* is lost: the dispatch step of a call appends its user message to the
\* stored log, its return appends its reply, nothing else changes the log,
\* the call's user message stands where the call put it, before the reply,
\* and the log holds one user message per call started and one assistant
\* message per call returned.
C21_NoAppendLost ==
  [][ /\ \A p \in Procs, i \in IDs :
           /\ (lastOp'.op = "dispatch" /\ lastOp'.p = p /\ lastOp'.id = i) =>
                get_session_history(i)' =
                  Append(get_session_history(i),
                         UserMessage(local'[p].user_message))
           /\ (lastOp'.op = "get_response" /\ lastOp'.p = p /\
               lastOp'.id = i) =>
                /\ get_session_history(i)' =
                     Append(get_session_history(i),
                            Message("assistant", lastOp'.ret))
                /\ Len(lastOp'.before) < Len(get_session_history(i))
                /\ get_session_history(i)[Len(lastOp'.before) + 1] =
                     UserMessage(lastOp'.text)
      /\ \A i \in IDs :
           Count(get_session_history(i), "user")' =
             Count(get_session_history(i), "assistant")' +
             Cardinality(InFlight(i))' ]_vars

\* two calls overlapped and both returned: the log holds user, user,
\* assistant, assistant
C21_Witness ==
  /\ Returned
  /\ InFlight("s1") = {}
  /\ ~lastOp.solo
  /\ [k \in 1..Len(get_session_history("s1")) |->
        get_session_history("s1")[k].role]
       = <<"user", "user", "assistant", "assistant">>

\* the last entry of the request coroutine p has in flight
LastEntry(p) == local[p].messages[Len(local[p].messages)]

\* C22: the last entry of the request of every call in flight is the user
\* message of that call, also while another call is in flight on the same
\* id; at the step that sends it, the request is built from the stored log
\* that ends with that message.
C22_RequestEndsWithOwnMessage ==
  [][ \A p \in Procs :
        /\ pc'[p] = "awaiting" =>
             LastEntry(p)' =
               [role |-> "user", content |-> Str(local'[p].user_message)]
        /\ (lastOp'.op = "dispatch" /\ lastOp'.p = p) =>
             /\ heap'[local'[p].session].messages # <<>>
             /\ LastEntry(p)' =
                  [role |-> "user",
                   content |-> heap'[local'[p].session].messages
                     [Len(heap'[local'[p].session].messages)].content]
             /\ local'[p].messages =
                  BuildRequest(heap'[local'[p].session].messages) ]_vars

\* two calls with different texts are in flight on one id: each request
\* ends with the text of its own call
C22_Witness ==
  /\ pc[1] = "awaiting" /\ pc[2] = "awaiting"
  /\ local[1].session_id = local[2].session_id
  /\ local[1].user_message = "hi" /\ local[2].user_message = "yo"
  /\ LastEntry(1).content = Str("hi")
  /\ LastEntry(2).content = Str("yo")
  /\ Len(local[2].messages) = 3

\* coroutine p is suspended at the dispatch
Suspended(p) == pc[p] = "awaiting"

\* C23: when the completion service answers or fails every request, every
\* get_response call returns; a suspended call ends by the answer or the
\* failure of its one dispatch and by nothing else (there is no timeout),
\* and as long as it is suspended the session object it holds has its user
\* message, at the place where the call appended it.
C23_EveryCallReturns ==
  /\ \A p \in Procs : Suspended(p) ~> ~Suspended(p)
  /\ [][ \A p \in Procs :
           (Suspended(p) /\ ~Suspended(p)') =>
             /\ lastOp'.op = "get_response" /\ lastOp'.p = p
             /\ lastOp'.sent = 1 ]_vars
  /\ [](\A p \in Procs :
          Suspended(p) =>
            /\ Len(heap[local[p].session].messages) > Len(call[p].before)
            /\ heap[local[p].session].messages[Len(call[p].before) + 1] =
                 UserMessage(local[p].user_message)
            /\ (call[p].solo /\ call[p].kept) =>
                 get_session_history(local[p].session_id) =
                   Append(call[p].before, UserMessage(local[p].user_message)))

\* a call has returned while the other coroutine, which started during that
\* call, is still suspended at its dispatch: its user message is stored,
\* its reply is not
C23_Witness ==
  /\ Returned
  /\ ~Suspended(lastOp.p)
  /\ \E q \in Procs :
       /\ Suspended(q)
       /\ call[q].kept
       /\ Len(call[q].before) = 1
       /\ Len(get_session_history("s1")) = 3
       /\ get_session_history("s1")[2] = UserMessage(local[q].user_message)
       /\ get_session_history("s1")[3] = Message("assistant", lastOp.ret)
====
